---- MODULE Spec2Model ----
(***************************************************************************)
(* A model of the extract-transform-load pipeline of usedcaranalytics:     *)
(*   - ParquetDataLoader.load / _write / _flush  (pipeline/loader.py)      *)
(*   - DataStreamer.stream / stream_search_results (pipeline/streamer.py)  *)
(*   - RateLimiter.evaluate                       (utils/ratelimiter.py)   *)
(*   - backoff_on_rate_limit                      (utils/ratelimiter.py)   *)
(*   - DataTransformer                            (pipeline/transformer.py)*)
(*   - get_path                                   (utils/getpath.py)      *)
(*   - main and the schema configuration  (pipeline/etl.py, config/parquet.py) *)
(*   - ParquetDataLoader.__init__                 (pipeline/loader.py)     *)
(* Each component has its own specification over the shared variables;     *)
(* the variables of the other components stay at their initial values.     *)
(***************************************************************************)
EXTENDS Integers, Sequences, FiniteSets, TLC

(***************************************************************************)
(* Bounds of the model.                                                    *)
(***************************************************************************)
\* items pulled from the data stream by one load() call
MaxStream == 4
\* largest target_bytes threshold tried
MaxTarget == 6
\* posts the provider returns over one stream() call
MaxPosts == 4
\* replies the provider returns for one post
MaxReplies == 2
\* evaluate() calls made on one RateLimiter
MaxCalls == 3
\* latest clock reading, in seconds
MaxTime == 1205
\* largest max_retries a backoff wrapper is built with (the streamer passes 5)
MaxRetries == 5
\* rows of a table handed to the DataTransformer
MaxRows == 2
\* load() calls made over all runs, and the latest reading of the wall clock in seconds
MaxLoads == 2
MaxClock == 1
\* get_path: depth of the directory trees, and the frames the interpreter allows
MaxDepth == 3
MaxFrames == 10

VARIABLES
    \* ---- ParquetDataLoader ----
    lpc,              \* position of load(): "loop", "except", "else", "returned", "raised"
    target_bytes,     \* self._target_bytes
    transformer,      \* self._transformer: "None" or the name of a callable
    buffers,          \* self._buffers: record type -> column -> list
    buffer_sizes,     \* self._buffer_sizes
    batch_counters,   \* self._batch_counters
    buffer,           \* the local name `buffer` of load()
    it,               \* index of the for loop over self._buffers.items() in except/else
    exc,              \* the exception caught by `except Exception as e` ("none" if none)
    raised,           \* what load() raised to its caller ("none" while it has not)
    files,            \* the files written so far, in order
    \* ---- history of the loader run (not program state) ----
    serial,           \* number of items pulled from the stream
    sinceFlush,       \* ids appended per type since that type's last _flush call
    appended,         \* ids of every record appended to a buffer
    sinceEmptied,     \* records appended per type since its buffer was created or emptied
    flushes,          \* _flush calls per type
    writeFailed       \* TRUE once a _write call has raised

loaderVars == <<lpc, target_bytes, transformer, buffers, buffer_sizes, batch_counters,
                buffer, it, exc, raised, files, serial, sinceFlush, appended, sinceEmptied,
                flushes, writeFailed>>

VARIABLES
    \* ---- DataStreamer ----
    subreddits,       \* the subreddits argument of stream()
    queries,          \* the queries argument of stream()
    progress_bar,     \* the progress_bar argument of stream()
    spc,              \* position of the generator: "pairs", "posts", "yield", "done", "failed"
    pairIdx,          \* index in search_pairs of the pair being streamed
    pending,          \* records of the current submission not yet yielded
    emitted,          \* the records yielded to the consumer, in order
    \* ---- history of the stream (not program state) ----
    searched,         \* the (subreddit, query) pairs stream_search_results was run for
    returned,         \* the posts the provider returned, with their replies, in order
    evalCalls         \* calls of rate_limiter.evaluate()

streamerVars == <<subreddits, queries, progress_bar, spc, pairIdx, pending, emitted,
                  searched, returned, evalCalls>>

VARIABLES
    \* ---- RateLimiter ----
    max_requests,        \* self.MAX_REQUESTS (the class constant, or 100 when read-only)
    buffer_range,        \* self.buffer_range
    total_requests,      \* self.total_requests
    requests_in_window,  \* self.requests_in_window
    limits,              \* self.reddit.auth.limits: remaining and reset_timestamp
    now,                 \* time.time()
    \* ---- history of the limiter (not program state) ----
    evalOutcome,         \* how the last evaluate() ended: "none", "returned", an error
    lastRemaining,       \* remaining_requests of the last evaluation
    lastBuffer,          \* the buffer drawn by the last evaluation
    logged,              \* timestamps appended to requests_in_window so far
    returns,             \* evaluate() calls that returned
    calls,               \* evaluate() calls made
    slept                \* the delays evaluate() passed to time.sleep, in order

limiterVars == <<max_requests, buffer_range, total_requests, requests_in_window, limits,
                 now, evalOutcome, lastRemaining, lastBuffer, logged, returns, calls,
                 slept>>

VARIABLES
    \* ---- one call of a function wrapped by backoff_on_rate_limit ----
    max_retries,      \* the max_retries argument of the decorator factory
    wrapped,          \* the wrapped callable: a "function" or a "generator" function
    attempt,          \* the local `attempt` of wrapper()
    bpc,              \* position: "try", "iterating", "returned", "raised"
    \* ---- history of the call (not program state) ----
    invocations,      \* times wrapper() called func
    delayBounds,      \* upper bound of every delay passed to time.sleep, in order
    callerSaw              \* what the caller got: "none", "value", or the exception raised

backoffVars == <<max_retries, wrapped, attempt, bpc, invocations, delayBounds, callerSaw>>

VARIABLES
    \* ---- DataTransformer ----
    current_record_type,  \* self.current_record_type
    \* ---- one call of a method of the transformer (not program state) ----
    tfTable,              \* the table (or DataFrame) passed
    tfOp,                 \* the method called, "none" before the call
    tfArgs,               \* its keyword arguments
    tfOut,                \* the table it returned
    tfRaised              \* the exception it raised to its caller, "none" if none

transformerVars == <<current_record_type, tfTable, tfOp, tfArgs, tfOut, tfRaised>>

VARIABLES
    \* ---- the runs of the loader ----
    wallclock,        \* dt.datetime.now(), in whole seconds
    dataset_depth,    \* date directories appended to self._dataset_paths so far
    loads             \* load() calls made so far, over all runs (history)

runVars == <<wallclock, dataset_depth, loads>>

VARIABLES
    \* ---- one call of get_path ----
    current_path,     \* the local current_path of the innermost frame
    gpSubdir,         \* the subdir argument, as its components ('' is <<>>)
    gpDirs,           \* the directories that exist
    gpHolds,          \* the directories d for which (d / target).exists()
    gpFrames,         \* frames of get_path on the stack
    gpOutcome,        \* "running", "returned", "RuntimeError" or "RecursionError"
    \* ---- history of the call (not program state) ----
    gpVisited         \* current_path of every frame entered, in order

getpathVars == <<current_path, gpSubdir, gpDirs, gpHolds, gpFrames, gpOutcome, gpVisited>>

VARIABLES
    \* ---- main() of etl.py ----
    schema_file,      \* config/schemas.json as main() finds it
    query_files,      \* TRUE when data/queries holds subreddits.txt and search_queries.txt
    loader_config,    \* the local loader_config: "unset", "file" or "defaults"
    mpc,              \* position: "start", "configured", "built", "loading", "done", "failed"
    mainRaised,       \* the exception main() raised, "none" if none
    mainLog,          \* the log records written so far, in order
    \* ---- history of the run (not program state) ----
    extracted         \* records the loader pulled from the stream

mainVars == <<schema_file, query_files, loader_config, mpc, mainRaised, mainLog, extracted>>

VARIABLES
    \* ---- ParquetDataLoader(config, target_MB, transformer) and its _write calls ----
    ctorArgs,         \* the arguments of the constructor
    cpc,              \* "new" before the call, then "built" or "rejected"
    ctorRaised,       \* the exception the constructor raised, "none" if none
    writes            \* the _write calls made on the built loader, with their outcome

ctorVars == <<ctorArgs, cpc, ctorRaised, writes>>

vars == <<loaderVars, streamerVars, limiterVars, backoffVars, transformerVars, runVars,
          getpathVars, mainVars, ctorVars>>

notLoader == <<streamerVars, limiterVars, backoffVars, transformerVars, runVars,
    getpathVars, mainVars, ctorVars>>
notStreamer == <<loaderVars, limiterVars, backoffVars, transformerVars, runVars,
    getpathVars, mainVars, ctorVars>>
notLimiter == <<loaderVars, streamerVars, backoffVars, transformerVars, runVars,
    getpathVars, mainVars, ctorVars>>
notBackoff == <<loaderVars, streamerVars, limiterVars, transformerVars, runVars,
    getpathVars, mainVars, ctorVars>>
notTransformer == <<loaderVars, streamerVars, limiterVars, backoffVars, runVars,
    getpathVars, mainVars, ctorVars>>
notRuns == <<streamerVars, limiterVars, backoffVars, transformerVars, getpathVars,
    mainVars, ctorVars>>
notGetPath == <<loaderVars, streamerVars, limiterVars, backoffVars, transformerVars, runVars,
    mainVars, ctorVars>>
notMain == <<loaderVars, streamerVars, limiterVars, backoffVars, transformerVars, runVars,
    getpathVars, ctorVars>>
notCtor == <<loaderVars, streamerVars, limiterVars, backoffVars, transformerVars, runVars,
    getpathVars, mainVars>>

(***************************************************************************)
(* ParquetDataLoader                                                       *)
(***************************************************************************)
Null == "None"
\* a value json.dumps cannot serialise (it raises TypeError)
NonJson == "<object>"

\* the configured record types, in the order of self.config (dict order)
TypeOrder == <<"submission", "comment">>
Types == {TypeOrder[i] : i \in 1..Len(TypeOrder)}

\* schema.names per record type (the two leading columns of each schema)
IdCol(rt) == IF rt = "submission" THEN "submission_id" ELSE "comment_id"
TextCol(rt) == IF rt = "submission" THEN "title" ELSE "body"
SchemaNames(rt) == {IdCol(rt), TextCol(rt)}

\* _configure_loader: one empty list per schema column
EmptyBuffers == [rt \in Types |-> [col \in SchemaNames(rt) |-> <<>>]]

\* record.get(col)
Get(record, col) == IF col \in DOMAIN record THEN record[col] ELSE Null

\* the mutant of AppendRecord: a column the record lacks gets no placeholder
AppendRecordPresent(buf, record) ==
    [col \in DOMAIN buf |-> IF col \in DOMAIN record THEN Append(buf[col], record[col])
                            ELSE buf[col]]

\* for col in buffer: buffer[col].append(record.get(col))
AppendRecord(buf, record) == [col \in DOMAIN buf |-> Append(buf[col], Get(record, col))]

\* json.dumps(record) succeeds
JsonSerializable(record) == \A k \in DOMAIN record : record[k] # NonJson

\* len(json.dumps(record, separators=(",", ":")).encode("utf-8")): the two braces
\* plus the entries; an entry is counted as one byte
JsonBytes(record) == 2 + Cardinality(DOMAIN record)

\* _flush(buffer): a new dict with the same columns, all empty, and 0
Flush(buf) == <<[col \in DOMAIN buf |-> <<>>], 0>>

\* any(container for container in buffer.values())
NonEmpty(buf) == \E col \in DOMAIN buf : buf[col] # <<>>

\* the mutant of NeedsWrite: the byte counter is tested instead of the lists
NeedsWriteBySize(rt) == buffer_sizes[rt] > 0

\* if any(container for container in buffer.values()), for the buffer of rt
NeedsWrite(rt) == NonEmpty(buffers[rt])

\* s restricted to the indices in K, in order
SubSeqBy(s, K) ==
    LET F[i \in 0..Len(s)] ==
            IF i = 0 THEN <<>>
            ELSE IF i \in K THEN Append(F[i-1], s[i]) ELSE F[i-1]
    IN F[Len(s)]

\* a transformer callable that drops the rows whose text column is null
DropNullRows(rt, table) ==
    LET keep == {i \in 1..Len(table[TextCol(rt)]) : table[TextCol(rt)][i] # Null}
    IN [col \in DOMAIN table |-> SubSeqBy(table[col], keep)]

\* pa.Table.from_pydict(buffer, schema), then self._transformer(pa_table) if configured
TableOf(rt, buf) == IF transformer = "None" THEN buf ELSE DropNullRows(rt, buf)

\* the file _write produces: the parts of its path (the directory as the number of
\* date directories under the dataset path of the record type, then prefix, record
\* type, batch counter and the time to the second), its table, and (history) the ids
\* appended to this type since its last flush
WriteFile(rt, buf, prefix, since) ==
    [prefix |-> prefix, rtype |-> rt, batch |-> batch_counters[rt],
     dir |-> dataset_depth, stamp |-> wallclock,
     table |-> TableOf(rt, buf), pending |-> since]

\* the mutant of BuffersAfterFlush: the flushed dict is stored back in self._buffers
BuffersAfterFlushStored(bufs, rt, flushed) == [bufs EXCEPT ![rt] = flushed]

\* self._buffers after `buffer, self._buffer_sizes[record_type] = self._flush(buffer)`:
\* the assignment rebinds the local name only, the dict held by self._buffers is the
\* one that was written and keeps its lists
BuffersAfterFlush(bufs, rt, flushed) == bufs

\* the mutant of ReachedTarget: a strict comparison
ReachedTargetStrict(size) == size > target_bytes

\* if self._buffer_sizes[record_type] >= self._target_bytes
ReachedTarget(size) == size >= target_bytes

\* the records a stream can yield for a record type; the id is the item's serial
RecordsFor(rt, n) ==
    {[c \in {IdCol(rt)} |-> ToString(n)]}
    \cup {(IdCol(rt) :> ToString(n)) @@ (TextCol(rt) :> v) : v \in {"t", NonJson}}

LoaderStart ==
    /\ lpc = "loop"
    /\ buffers = EmptyBuffers
    /\ buffer_sizes = [rt \in Types |-> 0]
    /\ batch_counters = [rt \in Types |-> 0]
    /\ buffer = [col \in {} |-> <<>>]
    /\ it = 1
    /\ exc = "none"
    /\ raised = "none"
    /\ files = <<>>
    /\ serial = 0
    /\ sinceFlush = [rt \in Types |-> <<>>]
    /\ appended = {}
    /\ sinceEmptied = [rt \in Types |-> 0]
    /\ flushes = [rt \in Types |-> 0]
    /\ writeFailed = FALSE

LoaderInit ==
    /\ target_bytes \in 0..MaxTarget
    /\ transformer \in {"None", "DropNullRows"}
    /\ LoaderStart

LoaderIdle ==
    /\ target_bytes = 0
    /\ transformer = "None"
    /\ LoaderStart

\* load(), lines 146-163: one iteration of `for record_type, record in data_stream`
LoadRecord ==
    /\ lpc = "loop"
    /\ serial < MaxStream
    /\ serial' = serial + 1
    /\ \E rt \in Types : \E record \in RecordsFor(rt, serial + 1) :
        LET buf1 == AppendRecord(buffers[rt], record)
            size1 == buffer_sizes[rt] + JsonBytes(record)
            since1 == [sinceFlush EXCEPT ![rt] = Append(@, ToString(serial + 1))]
        IN
        /\ appended' = appended \cup {ToString(serial + 1)}
        /\ \/ \* json.dumps raises: the record is in the buffer, its bytes are not counted
              /\ ~JsonSerializable(record)
              /\ buffers' = [buffers EXCEPT ![rt] = buf1]
              /\ buffer' = buf1
              /\ sinceFlush' = since1
              /\ lpc' = "except" /\ exc' = "TypeError" /\ it' = 1
              /\ UNCHANGED <<buffer_sizes, batch_counters, files, flushes,
                             writeFailed>>
           \/ \* below the threshold
              /\ JsonSerializable(record)
              /\ ~ReachedTarget(size1)
              /\ buffers' = [buffers EXCEPT ![rt] = buf1]
              /\ buffer' = buf1
              /\ buffer_sizes' = [buffer_sizes EXCEPT ![rt] = size1]
              /\ sinceFlush' = since1
              /\ UNCHANGED <<lpc, exc, it, batch_counters, files, flushes,
                             writeFailed>>
           \/ \* threshold reached: _write, counter += 1, _flush
              /\ JsonSerializable(record)
              /\ ReachedTarget(size1)
              /\ files' = Append(files, WriteFile(rt, buf1, "", since1[rt]))
              /\ batch_counters' = [batch_counters EXCEPT ![rt] = @ + 1]
              /\ buffer' = Flush(buf1)[1]
              /\ buffer_sizes' = [buffer_sizes EXCEPT ![rt] = Flush(buf1)[2]]
              /\ buffers' = BuffersAfterFlush([buffers EXCEPT ![rt] = buf1], rt, Flush(buf1)[1])
              /\ sinceFlush' = [sinceFlush EXCEPT ![rt] = <<>>]
              /\ flushes' = [flushes EXCEPT ![rt] = @ + 1]
              /\ UNCHANGED <<lpc, exc, it, writeFailed>>
           \/ \* threshold reached and _write raises
              /\ JsonSerializable(record)
              /\ ReachedTarget(size1)
              /\ buffers' = [buffers EXCEPT ![rt] = buf1]
              /\ buffer' = buf1
              /\ buffer_sizes' = [buffer_sizes EXCEPT ![rt] = size1]
              /\ sinceFlush' = since1
              /\ writeFailed' = TRUE
              /\ lpc' = "except" /\ exc' = "WriteError" /\ it' = 1
              /\ UNCHANGED <<batch_counters, files, flushes>>
        \* the count starts again when the dict held by self._buffers is empty
        /\ sinceEmptied' = [sinceEmptied EXCEPT
                                ![rt] = IF NonEmpty(buffers'[rt]) THEN @ + 1 ELSE 0]
    /\ UNCHANGED <<target_bytes, transformer, raised>>

\* load(), line 147: an item whose record type has no buffer (KeyError), or, line 150,
\* whose record has no .get (AttributeError): nothing is appended
LoadMalformed ==
    /\ lpc = "loop"
    /\ serial < MaxStream
    /\ serial' = serial + 1
    /\ lpc' = "except" /\ exc' = "KeyError" /\ it' = 1
    /\ UNCHANGED <<target_bytes, transformer, buffers, buffer_sizes, batch_counters,
                   buffer, raised, files, sinceFlush, appended, sinceEmptied, flushes,
                   writeFailed>>

\* load(), line 146: the generator raises when the next item is pulled
StreamRaises ==
    /\ lpc = "loop"
    /\ lpc' = "except" /\ exc' = "StreamError" /\ it' = 1
    /\ UNCHANGED <<target_bytes, transformer, buffers, buffer_sizes, batch_counters,
                   buffer, raised, files, serial, sinceFlush, appended, sinceEmptied, flushes,
                   writeFailed>>

\* load(), line 146 -> 176: the generator is exhausted, the else clause starts
StreamEnds ==
    /\ lpc = "loop"
    /\ lpc' = "else" /\ it' = 1
    /\ UNCHANGED <<target_bytes, transformer, buffers, buffer_sizes, batch_counters,
                   buffer, exc, raised, files, serial, sinceFlush, appended, sinceEmptied, flushes,
                   writeFailed>>

\* one iteration of `for record_type, buffer in self._buffers.items()` in the except
\* clause (prefix "error") or the else clause (prefix "final"), lines 168-172, 180-184
FlushStep(prefix) ==
    /\ it <= Len(TypeOrder)
    /\ LET rt == TypeOrder[it] IN
        \/ \* nothing to write for this type
           /\ ~NeedsWrite(rt)
           /\ it' = it + 1
           /\ buffer' = buffers[rt]
           /\ UNCHANGED <<lpc, raised, buffers, buffer_sizes, files, sinceFlush, flushes,
                          writeFailed>>
        \/ \* _write, then _flush
           /\ NeedsWrite(rt)
           /\ files' = Append(files, WriteFile(rt, buffers[rt], prefix, sinceFlush[rt]))
           /\ buffer' = Flush(buffers[rt])[1]
           /\ buffer_sizes' = [buffer_sizes EXCEPT ![rt] = Flush(buffers[rt])[2]]
           /\ buffers' = BuffersAfterFlush(buffers, rt, Flush(buffers[rt])[1])
           /\ sinceFlush' = [sinceFlush EXCEPT ![rt] = <<>>]
           /\ flushes' = [flushes EXCEPT ![rt] = @ + 1]
           /\ it' = it + 1
           /\ UNCHANGED <<lpc, raised, writeFailed>>
        \/ \* _write raises: nothing catches it here, it leaves load() as it is
           /\ NeedsWrite(rt)
           /\ writeFailed' = TRUE
           /\ lpc' = "raised" /\ raised' = "WriteError"
           /\ buffer' = buffers[rt]
           /\ UNCHANGED <<it, buffers, buffer_sizes, files, sinceFlush, flushes>>
    /\ sinceEmptied' = [rt \in Types |-> IF NonEmpty(buffers'[rt]) THEN sinceEmptied[rt]
                                          ELSE 0]
    /\ UNCHANGED <<target_bytes, transformer, batch_counters, exc, serial, appended>>

\* lines 168-172
ErrorFlush ==
    /\ lpc = "except"
    /\ FlushStep("error")

\* lines 180-184
FinalFlush ==
    /\ lpc = "else"
    /\ FlushStep("final")

\* load(), lines 173-174: raise RuntimeError(f'Exception {e} encountered.')
RaiseRuntimeError ==
    /\ lpc = "except"
    /\ it > Len(TypeOrder)
    /\ lpc' = "raised" /\ raised' = "RuntimeError"
    /\ UNCHANGED <<target_bytes, transformer, buffers, buffer_sizes, batch_counters,
                   buffer, it, exc, files, serial, sinceFlush, appended, sinceEmptied, flushes,
                   writeFailed>>

\* load() falls off the end of the else clause
LoadReturns ==
    /\ lpc = "else"
    /\ it > Len(TypeOrder)
    /\ lpc' = "returned"
    /\ UNCHANGED <<target_bytes, transformer, buffers, buffer_sizes, batch_counters,
                   buffer, it, exc, raised, files, serial, sinceFlush, appended, sinceEmptied, flushes,
                   writeFailed>>

\* the first load() call on a new loader, at second 0, with partition_by_date at its
\* default False (with True, lines 137-141, the first call of every run of the day
\* appends the same date directory)
RunsIdle ==
    /\ wallclock = 0
    /\ dataset_depth = 0
    /\ loads = 1

\* a second passes (every reading of the model falls on one day)
ClockTicks ==
    /\ wallclock < MaxClock
    /\ wallclock' = wallclock + 1
    /\ UNCHANGED <<loaderVars, dataset_depth, loads>>

\* load() is called again on the same loader, after it returned or raised: the
\* buffers, byte counts, batch counters and dataset paths are those it left
LoadAgain ==
    /\ lpc \in {"returned", "raised"}
    /\ loads < MaxLoads
    /\ loads' = loads + 1
    /\ \E partition_by_date \in BOOLEAN :
          dataset_depth' = dataset_depth + (IF partition_by_date THEN 1 ELSE 0)
    /\ lpc' = "loop" /\ exc' = "none" /\ raised' = "none" /\ it' = 1
    /\ UNCHANGED <<target_bytes, transformer, buffers, buffer_sizes, batch_counters,
                   buffer, files, serial, sinceFlush, appended, sinceEmptied, flushes, writeFailed,
                   wallclock>>

\* a separate run: a new ParquetDataLoader over the same configuration, and its first
\* load() call; the files of the earlier runs are on disk
NewRun ==
    /\ lpc \in {"returned", "raised"}
    /\ loads < MaxLoads
    /\ loads' = loads + 1
    /\ dataset_depth' = 0
    /\ lpc' = "loop" /\ exc' = "none" /\ raised' = "none" /\ it' = 1
    /\ buffers' = EmptyBuffers
    /\ buffer_sizes' = [rt \in Types |-> 0]
    /\ batch_counters' = [rt \in Types |-> 0]
    /\ buffer' = [col \in {} |-> <<>>]
    /\ sinceFlush' = [rt \in Types |-> <<>>]
    /\ sinceEmptied' = [rt \in Types |-> 0]
    /\ UNCHANGED <<target_bytes, transformer, files, serial, appended, flushes,
                   writeFailed, wallclock>>


(***************************************************************************)
(* DataStreamer                                                            *)
(***************************************************************************)
SubredditLists == {<<>>, <<"r/a">>, <<"r/a", "r/b">>}
QueryLists == {<<"x">>, <<"x", "y">>}

\* the mutant of Product: the second list is the outer one
ProductSwapped(xs, ys) ==
    [k \in 1..(Len(xs) * Len(ys)) |->
        <<xs[((k - 1) % Len(xs)) + 1], ys[((k - 1) \div Len(xs)) + 1]>>]

\* itertools.product(subreddits, queries): the first list is the outer one
Product(xs, ys) ==
    [k \in 1..(Len(xs) * Len(ys)) |->
        <<xs[((k - 1) \div Len(ys)) + 1], ys[((k - 1) % Len(ys)) + 1]>>]

\* search_pairs of stream(): with a progress bar the product is materialised as a
\* list and wrapped by tqdm, which iterates it unchanged
SearchPairs ==
    IF progress_bar THEN [k \in DOMAIN Product(subreddits, queries) |->
                              Product(subreddits, queries)[k]]
    ELSE Product(subreddits, queries)

\* the id of the j-th reply of post p
CommentId(p, j) == p * 10 + j

\* the mutant of CommentRecord: the reply carries no parent
CommentRecordOrphan(p, c) == [rtype |-> "comment", id |-> c, parent_submission_id |-> 0]

\* the ('comment', {...}) tuple _stream_comments yields
CommentRecord(p, c) == [rtype |-> "comment", id |-> c, parent_submission_id |-> p]

\* the ('submission', {...}) tuple stream_search_results yields (it has no parent)
SubmissionRecord(p) == [rtype |-> "submission", id |-> p, parent_submission_id |-> 0]

\* the mutant of RecordsOf: the submission is yielded before its comments
RecordsOfPostFirst(p, comments) ==
    <<SubmissionRecord(p)>> \o [j \in 1..Len(comments) |-> CommentRecord(p, comments[j])]

\* what one iteration of `for submission in submissions` yields: the records of
\* _stream_comments(submission), then the submission
RecordsOf(p, comments) ==
    [j \in 1..Len(comments) |-> CommentRecord(p, comments[j])] \o <<SubmissionRecord(p)>>

\* the mutant of Guarded: the fetch does not call evaluate()
Unguarded(n) == n

\* self.rate_limiter.evaluate(), the first statement of _fetch_submissions and
\* of _fetch_comments, ahead of subreddit.search() and of replace_more(): the
\* number of evaluate() calls after a fetch that found it at n
Guarded(n) == n + 1

StreamerIdle ==
    /\ subreddits = <<>>
    /\ queries = <<>>
    /\ progress_bar = FALSE
    /\ spc = "pairs"
    /\ pairIdx = 1
    /\ pending = <<>>
    /\ emitted = <<>>
    /\ searched = <<>>
    /\ returned = <<>>
    /\ evalCalls = 0

StreamerInit ==
    /\ subreddits \in SubredditLists
    /\ queries \in QueryLists
    /\ progress_bar \in BOOLEAN
    /\ spc = "pairs"
    /\ pairIdx = 1
    /\ pending = <<>>
    /\ emitted = <<>>
    /\ searched = <<>>
    /\ returned = <<>>
    /\ evalCalls = 0

\* stream(), line 148 and stream_search_results, lines 97-100: the next pair is
\* taken and _fetch_submissions runs evaluate() and subreddit.search()
NextPair ==
    /\ spc = "pairs"
    /\ pairIdx <= Len(SearchPairs)
    /\ searched' = Append(searched, SearchPairs[pairIdx])
    /\ evalCalls' = Guarded(evalCalls)
    /\ spc' = "posts"
    /\ UNCHANGED <<subreddits, queries, progress_bar, pairIdx, pending, emitted, returned>>

\* stream(), line 155: search_pairs is exhausted, the generator ends
StreamDone ==
    /\ spc = "pairs"
    /\ pairIdx > Len(SearchPairs)
    /\ spc' = "done"
    /\ UNCHANGED <<subreddits, queries, progress_bar, pairIdx, pending, emitted,
                   searched, returned, evalCalls>>

\* stream_search_results, lines 107-110 and _fetch_comments: the search yields its
\* next submission, evaluate() runs and the comments of the submission are fetched
NextSubmission ==
    /\ spc = "posts"
    /\ Len(returned) < MaxPosts
    /\ \E n \in 0..MaxReplies :
        LET p == Len(returned) + 1
            comments == [j \in 1..n |-> CommentId(p, j)]
        IN
        /\ returned' = Append(returned, [pair |-> pairIdx, id |-> p, comments |-> comments])
        /\ pending' = RecordsOf(p, comments)
    /\ evalCalls' = Guarded(evalCalls)
    /\ spc' = "yield"
    /\ UNCHANGED <<subreddits, queries, progress_bar, pairIdx, emitted, searched>>

\* lines 71 and 112: the next record of the current submission is yielded
YieldRecord ==
    /\ spc = "yield"
    /\ pending # <<>>
    /\ emitted' = Append(emitted, Head(pending))
    /\ pending' = Tail(pending)
    /\ spc' = IF Tail(pending) = <<>> THEN "posts" ELSE "yield"
    /\ UNCHANGED <<subreddits, queries, progress_bar, pairIdx, searched, returned, evalCalls>>

\* line 122: the search of the current pair is exhausted
SearchEnds ==
    /\ spc = "posts"
    /\ pairIdx' = pairIdx + 1
    /\ spc' = "pairs"
    /\ UNCHANGED <<subreddits, queries, progress_bar, pending, emitted, searched,
                   returned, evalCalls>>

\* a remote call made while the search or the comments are iterated raises: the
\* exception leaves the generator, which is finished from then on
StreamFails ==
    /\ spc = "posts"
    /\ spc' = "failed"
    /\ UNCHANGED <<subreddits, queries, progress_bar, pairIdx, pending, emitted,
                   searched, returned, evalCalls>>

StreamerNext ==
    \/ NextPair /\ UNCHANGED notStreamer
    \/ StreamDone /\ UNCHANGED notStreamer
    \/ NextSubmission /\ UNCHANGED notStreamer
    \/ YieldRecord /\ UNCHANGED notStreamer
    \/ SearchEnds /\ UNCHANGED notStreamer
    \/ StreamFails /\ UNCHANGED notStreamer


(***************************************************************************)
(* RateLimiter                                                             *)
(***************************************************************************)
\* RateLimiter.MAX_REQUESTS
MAX_REQUESTS == 1000
\* RateLimiter.PERIOD, in seconds
PERIOD == 600
\* self.MAX_REQUESTS of a read-only client
READ_ONLY_MAX_REQUESTS == 100
\* None, for a quota reading the provider has not reported (readings are >= 0)
NoneVal == -1

\* buffer_range: the default of the constructor, and the range of the unit tests
BufferRanges == {<<50, 100>>, <<0, 1>>}

\* random.randint(*self.buffer_range): both ends are possible; the draws tried are
\* the ends and the middle
BufferDraws(range) == {range[1], (range[1] + range[2]) \div 2, range[2]}

\* the quota readings the provider reports
RemainingReadings == {NoneVal, 5, 75, 996}
ResetReadings == {NoneVal, PERIOD}

\* the clock advances by half a period, or by a second more than that
ClockSteps == {PERIOD \div 2, PERIOD \div 2 + 1}

\* the mutant of RefreshWindow: nothing is evicted
RefreshWindowKeepAll(window, t) == window

\* _refresh_window: while the deque is non-empty and its first entry is older than
\* time.time() - PERIOD, popleft
RECURSIVE RefreshWindow(_, _)
RefreshWindow(window, t) ==
    IF window # <<>> /\ Head(window) < t - PERIOD
    THEN RefreshWindow(Tail(window), t)
    ELSE window

\* _log_request: self.requests_in_window.append(time.time())
LogRequest(window, t) == Append(window, t)

\* the mutant of DipsIntoBuffer: the request about to be made is not counted
DipsIntoBufferNoRequest(remaining, buf) == remaining < buf

\* if remaining_requests - 1 < buffer
DipsIntoBuffer(remaining, buf) == remaining - 1 < buf

LimiterIdle ==
    /\ max_requests = MAX_REQUESTS
    /\ buffer_range = <<50, 100>>
    /\ total_requests = 0
    /\ requests_in_window = <<>>
    /\ limits = [remaining |-> NoneVal, reset_timestamp |-> NoneVal]
    /\ now = 0
    /\ evalOutcome = "none"
    /\ lastRemaining = 0
    /\ lastBuffer = 0
    /\ logged = 0
    /\ returns = 0
    /\ calls = 0
    /\ slept = <<>>

\* __init__ and _authenticate_reddit: a read-only client lowers self.MAX_REQUESTS;
\* no request has been made, so auth.limits holds no reading
LimiterInit ==
    /\ max_requests \in {MAX_REQUESTS, READ_ONLY_MAX_REQUESTS}
    /\ buffer_range \in BufferRanges
    /\ total_requests = 0
    /\ requests_in_window = <<>>
    /\ limits = [remaining |-> NoneVal, reset_timestamp |-> NoneVal]
    /\ now = 0
    /\ evalOutcome = "none"
    /\ lastRemaining = 0
    /\ lastBuffer = 0
    /\ logged = 0
    /\ returns = 0
    /\ calls = 0
    /\ slept = <<>>

\* evaluate(), lines 47-80
Evaluate ==
    /\ calls < MaxCalls
    /\ calls' = calls + 1
    /\ \E buf \in BufferDraws(buffer_range) :
        LET fallback == limits.remaining = NoneVal
            \* lines 53-55: the window is refreshed only on the fallback path
            window1 == IF fallback THEN RefreshWindow(requests_in_window, now)
                       ELSE requests_in_window
            remaining == IF fallback THEN max_requests - Len(window1)
                         ELSE limits.remaining
        IN
        /\ lastRemaining' = remaining
        /\ lastBuffer' = buf
        /\ \/ \* line 67: requests_in_window[0] of an empty deque raises IndexError
              /\ DipsIntoBuffer(remaining, buf)
              /\ limits.reset_timestamp = NoneVal
              /\ window1 = <<>>
              /\ requests_in_window' = window1
              /\ evalOutcome' = "IndexError"
              /\ UNCHANGED <<total_requests, logged, returns>>
           \/ \* line 70: random.randrange(0.01, 5.0) raises on its non-integer
              \* arguments, before time.sleep is reached
              /\ DipsIntoBuffer(remaining, buf)
              /\ (limits.reset_timestamp # NoneVal \/ window1 # <<>>)
              /\ requests_in_window' = window1
              /\ evalOutcome' = "JitterError"
              /\ UNCHANGED <<total_requests, logged, returns>>
           \/ \* lines 77-80: refresh, log the request, count it
              /\ ~DipsIntoBuffer(remaining, buf)
              /\ requests_in_window' = LogRequest(RefreshWindow(window1, now), now)
              /\ total_requests' = total_requests + 1
              /\ logged' = logged + 1
              /\ returns' = returns + 1
              /\ evalOutcome' = "returned"
    \* line 71, time.sleep(delay), comes after the raising line 70: no path reaches it
    /\ UNCHANGED <<max_requests, buffer_range, limits, now, slept>>

\* time passes between two calls
ClockAdvances ==
    /\ \E d \in ClockSteps :
        /\ now + d <= MaxTime
        /\ now' = now + d
    /\ UNCHANGED <<max_requests, buffer_range, total_requests, requests_in_window, limits,
                   evalOutcome, lastRemaining, lastBuffer, logged, returns, calls, slept>>

\* a response of the provider updates reddit.auth.limits
LimitsUpdated ==
    /\ calls < MaxCalls
    /\ \E r \in RemainingReadings, t \in ResetReadings :
        /\ limits' = [remaining |-> r, reset_timestamp |-> t]
        /\ limits' # limits
    /\ UNCHANGED <<max_requests, buffer_range, total_requests, requests_in_window, now,
                   evalOutcome, lastRemaining, lastBuffer, logged, returns, calls, slept>>

LimiterNext ==
    \/ Evaluate /\ UNCHANGED notLimiter
    \/ ClockAdvances /\ UNCHANGED notLimiter
    \/ LimitsUpdated /\ UNCHANGED notLimiter

(***************************************************************************)
(* backoff_on_rate_limit                                                   *)
(***************************************************************************)
\* base_delay and cap_delay, the defaults of the decorator factory, in seconds
BASE_DELAY == 1
CAP_DELAY == 60

RECURSIVE Pow2(_)
Pow2(n) == IF n = 0 THEN 1 ELSE 2 * Pow2(n - 1)

Min(a, b) == IF a < b THEN a ELSE b

\* min(cap_delay, base_delay * 2 ** attempt), the upper end of random.uniform
DelayBound(n) == Min(CAP_DELAY, BASE_DELAY * Pow2(n))

\* if attempt > max_retries
RetriesExhausted(n, budget) == n > budget

BackoffIdle ==
    /\ max_retries = 5
    /\ wrapped = "function"
    /\ attempt = 0
    /\ bpc = "try"
    /\ invocations = 0
    /\ delayBounds = <<>>
    /\ callerSaw = "none"

\* decorator(func) and the first line of wrapper(): attempt = 0.  _fetch_submissions
\* is a plain function, _fetch_comments (it contains `yield from`) a generator function.
BackoffInit ==
    /\ max_retries \in 0..MaxRetries
    /\ wrapped \in {"function", "generator"}
    /\ attempt = 0
    /\ bpc = "try"
    /\ invocations = 0
    /\ delayBounds = <<>>
    /\ callerSaw = "none"

\* try: return func(*args, **kwargs), func a plain function whose body returns
InvokeReturns ==
    /\ bpc = "try"
    /\ wrapped = "function"
    /\ invocations' = invocations + 1
    /\ bpc' = "returned"
    /\ callerSaw' = "value"
    /\ UNCHANGED <<max_retries, wrapped, attempt, delayBounds>>

\* try: return func(*args, **kwargs), func a generator function: the call builds the
\* generator object without running any of the body, and wrapper() returns it
InvokeReturnsGenerator ==
    /\ bpc = "try"
    /\ wrapped = "generator"
    /\ invocations' = invocations + 1
    /\ bpc' = "iterating"
    /\ UNCHANGED <<max_retries, wrapped, attempt, delayBounds, callerSaw>>

\* except ResponseException: the body of a plain function raised it inside the try
InvokeRaisesResponseException ==
    /\ bpc = "try"
    /\ wrapped = "function"
    /\ invocations' = invocations + 1
    /\ IF RetriesExhausted(attempt, max_retries)
       THEN /\ bpc' = "raised"
            /\ callerSaw' = "Max retries exceeded"
            /\ UNCHANGED <<attempt, delayBounds>>
       ELSE /\ delayBounds' = Append(delayBounds, DelayBound(attempt))
            /\ attempt' = attempt + 1
            /\ UNCHANGED <<bpc, callerSaw>>
    /\ UNCHANGED <<max_retries, wrapped>>

\* an exception that is not a ResponseException passes through the except clause
InvokeRaisesOther ==
    /\ bpc = "try"
    /\ wrapped = "function"
    /\ invocations' = invocations + 1
    /\ bpc' = "raised"
    /\ callerSaw' = "OtherException"
    /\ UNCHANGED <<max_retries, wrapped, attempt, delayBounds>>

\* the caller iterates the generator (the for loop of _stream_comments): the body,
\* evaluate() then replace_more() then yield from, runs to its end
IterateCompletes ==
    /\ bpc = "iterating"
    /\ bpc' = "returned"
    /\ callerSaw' = "value"
    /\ UNCHANGED <<max_retries, wrapped, attempt, invocations, delayBounds>>

\* the body raises while the caller iterates: wrapper() has returned already, so its
\* try is not on the stack and the exception reaches the caller as it is
IterateRaises ==
    /\ bpc = "iterating"
    /\ bpc' = "raised"
    /\ \E e \in {"ResponseException", "OtherException"} : callerSaw' = e
    /\ UNCHANGED <<max_retries, wrapped, attempt, invocations, delayBounds>>

BackoffNext ==
    \/ InvokeReturns /\ UNCHANGED notBackoff
    \/ InvokeReturnsGenerator /\ UNCHANGED notBackoff
    \/ InvokeRaisesResponseException /\ UNCHANGED notBackoff
    \/ InvokeRaisesOther /\ UNCHANGED notBackoff
    \/ IterateCompletes /\ UNCHANGED notBackoff
    \/ IterateRaises /\ UNCHANGED notBackoff

(***************************************************************************)
(* DataTransformer                                                         *)
(***************************************************************************)
\* A text is a sequence of symbols.  "a" is a lower-case ASCII letter, "A" an
\* upper-case one, " " a space, "NL" a newline, "U" a non-ASCII character, "&" an
\* ampersand; "[deleted]" and "[removed]" are the nine-character markers.
Markers == {"[deleted]", "[removed]"}

\* characters of a symbol
Width(c) == IF c \in Markers THEN 9 ELSE 1

\* the text made of n symbols c
Rep(c, n) == [i \in 1..n |-> c]

\* pc.utf8_length: the number of characters
RECURSIVE utf8_length(_)
utf8_length(text) ==
    IF text = <<>> THEN 0 ELSE Width(Head(text)) + utf8_length(Tail(text))

\* the defaults of remove_short_text_from_table
MIN_TITLE_LENGTH == 15
MIN_SELFTEXT_LENGTH == 50
MIN_BODY_LENGTH == 15

\* the default regex_patterns of remove_match_from_table, each a literal
DefaultPatterns == <<"[deleted]", "[removed]">>

\* str.replace(r'\n', ' '): every newline becomes a space
ReplaceNewlines(text) == [i \in 1..Len(text) |-> IF text[i] = "NL" THEN " " ELSE text[i]]

\* str.replace(r'[^\x00-\x7F]+', ' ') with run = "U", and str.replace(r'\s+', ' ')
\* with run = " " (no newline is left by then): every maximal run becomes one space
RECURSIVE ReplaceRuns(_, _)
ReplaceRuns(text, run) ==
    IF text = <<>> THEN <<>>
    ELSE IF Head(text) # run THEN <<Head(text)>> \o ReplaceRuns(Tail(text), run)
    ELSE IF Len(text) > 1 /\ text[2] = run THEN ReplaceRuns(Tail(text), run)
    ELSE <<" ">> \o ReplaceRuns(Tail(text), run)

\* the three replacements of replace_newlines_nonascii_from_df, in their order
Normalize(text) == ReplaceRuns(ReplaceRuns(ReplaceNewlines(text), "U"), " ")

\* str.lower()
Lower(text) == [i \in 1..Len(text) |-> IF text[i] = "A" THEN "a" ELSE text[i]]

\* str.match(r'^\s*$'): nothing but white space
IsBlank(text) == \A i \in 1..Len(text) : text[i] \in {" ", "NL"}

\* the symbols lit occur in text, one after the other
IsSubstring(lit, text) ==
    \E k \in 0..(Len(text) - Len(lit)) : \A i \in 1..Len(lit) : text[k + i] = lit[i]

\* "&".join(regex_patterns): to the regex engine "&" is an ordinary character, so
\* the joined pattern is one literal, the patterns with an ampersand between them
RECURSIVE JoinAmpersand(_)
JoinAmpersand(patterns) ==
    IF Len(patterns) = 1 THEN <<patterns[1]>>
    ELSE <<patterns[1], "&">> \o JoinAmpersand(Tail(patterns))

\* the regexp built on lines 278-280, as the set of its alternatives;
\* "|".join(regex_patterns) has one alternative per pattern
Regexp(patterns, match_logic) ==
    IF match_logic = "intersect" THEN {JoinAmpersand(patterns)}
    ELSE {<<patterns[i]>> : i \in 1..Len(patterns)}

\* pc.match_substring_regex
match_substring_regex(text, regexp) == \E alt \in regexp : IsSubstring(alt, text)

\* A table (or DataFrame) is its schema metadata b'data_source' (Null when the schema
\* has no metadata), its column names, and its rows in order.  Of the columns only
\* the id and the text columns are kept; no method changes the others' values.
TextCols(rt) == IF rt = "submission" THEN {"title", "selftext"} ELSE {"body"}

\* table.filter(~mask_expr): the rows whose index is not in masked, in their order
Filter(table, masked) ==
    [table EXCEPT !.rows = SubSeqBy(table.rows, (1..Len(table.rows)) \ masked)]

\* what a method working on the columns of record type rt raises ("none" if nothing):
\* with a record type that is neither 'submission' nor 'comment' no branch binds
\* mask_expr / out_df / empty_rows, and a missing column fails the lookup
StageError(table, rt) ==
    IF rt \notin Types THEN "UnboundLocalError"
    ELSE IF ~(TextCols(rt) \subseteq table.cols) THEN "ArrowInvalid"
    ELSE "none"

\* the mutant of MatchMask: only the first text column is scanned
MatchMaskFirstColumn(row, rt, regexp) ==
    IF rt = "submission" THEN match_substring_regex(row.title, regexp)
    ELSE match_substring_regex(row.body, regexp)

\* mask_expr of remove_match_from_table, lines 284-292
MatchMask(row, rt, regexp) ==
    IF rt = "submission"
    THEN match_substring_regex(row.title, regexp)
            \/ match_substring_regex(row.selftext, regexp)
    ELSE match_substring_regex(row.body, regexp)

remove_match_from_table(table, rt, regex_patterns, match_logic) ==
    LET regexp == Regexp(regex_patterns, match_logic) IN
    Filter(table, {i \in 1..Len(table.rows) : MatchMask(table.rows[i], rt, regexp)})

\* the mutant of ShortMask: a text of exactly the minimum length is short too
ShortMaskInclusive(row, rt, min) ==
    IF rt = "submission"
    THEN utf8_length(row.title) <= min.title \/ utf8_length(row.selftext) <= min.selftext
    ELSE utf8_length(row.body) <= min.body

\* mask_expr of remove_short_text_from_table, lines 245-251
ShortMask(row, rt, min) ==
    IF rt = "submission"
    THEN utf8_length(row.title) < min.title \/ utf8_length(row.selftext) < min.selftext
    ELSE utf8_length(row.body) < min.body

remove_short_text_from_table(table, rt, min) ==
    Filter(table, {i \in 1..Len(table.rows) : ShortMask(table.rows[i], rt, min)})

\* min_title_length, min_selftext_length, min_body_length left at their defaults
DefaultMin ==
    [title |-> MIN_TITLE_LENGTH, selftext |-> MIN_SELFTEXT_LENGTH, body |-> MIN_BODY_LENGTH]

\* the mutant of IsDuplicate: the last row of an id is the one kept
IsDuplicateKeepLast(rows, i, col) == \E j \in (i + 1)..Len(rows) : rows[j][col] = rows[i][col]

\* DataFrame.drop_duplicates(col), keep='first': a row is dropped when an earlier
\* row holds the same value in col
IsDuplicate(rows, i, col) == \E j \in 1..(i - 1) : rows[j][col] = rows[i][col]

remove_duplicates_from_df(df, rt) ==
    Filter(df, {i \in 1..Len(df.rows) : IsDuplicate(df.rows, i, IdCol(rt))})

\* the text columns are normalized, the other columns keep their values
replace_newlines_nonascii_from_df(df, rt) ==
    [df EXCEPT !.rows =
        [i \in 1..Len(df.rows) |->
            [c \in DOMAIN df.rows[i] |->
                IF c \in TextCols(rt) THEN Normalize(df.rows[i][c]) ELSE df.rows[i][c]]]]

remove_empty_rows_from_df(df, rt) ==
    Filter(df, {i \in 1..Len(df.rows) : \E c \in TextCols(rt) : IsBlank(df.rows[i][c])})

\* the id column and the text columns are lower-cased
lowercase_text_from_df(df, rt) ==
    [df EXCEPT !.rows =
        [i \in 1..Len(df.rows) |->
            [c \in DOMAIN df.rows[i] |->
                IF c \in TextCols(rt) \cup {IdCol(rt)} THEN Lower(df.rows[i][c])
                ELSE df.rows[i][c]]]]

\* the mutant of OnException: the failure leaves an empty table
OnExceptionEmpty(table) == [table EXCEPT !.rows = <<>>]

\* except Exception as e: ... return table
OnException(table) == table

\* what the try block of transform() raises: line 26 subscripts the metadata, which
\* is None for a schema without metadata; then the stages, lines 30-48
TransformError(table) ==
    IF table.meta = Null THEN "TypeError" ELSE StageError(table, table.meta)

\* lines 30-48, in the order of the code
TransformStages(table, rt) ==
    LET t1 == remove_match_from_table(table, rt, DefaultPatterns, "union")
        t2 == remove_short_text_from_table(t1, rt, DefaultMin)
        d1 == remove_duplicates_from_df(t2, rt)
        d2 == replace_newlines_nonascii_from_df(d1, rt)
        d3 == remove_empty_rows_from_df(d2, rt)
    IN lowercase_text_from_df(d3, rt)

\* transform(), lines 9-57; __call__ is an alias of it
transform(table) ==
    IF TransformError(table) # "none" THEN OnException(table)
    ELSE TransformStages(table, table.meta)

\* ids: two that differ in case only
IdSamples == {<<"a">>, <<"A">>}

\* titles: of the minimum length, one character short, and long with a marker
TitleSamples ==
    {Rep("a", MIN_TITLE_LENGTH), Rep("a", MIN_TITLE_LENGTH - 1),
     Rep("A", MIN_TITLE_LENGTH) \o <<"[deleted]">>}

\* selftexts: of the minimum length, one character short, long with a marker, and
\* of the minimum length with a run of non-ASCII characters
SelftextSamples ==
    {Rep("a", MIN_SELFTEXT_LENGTH), Rep("a", MIN_SELFTEXT_LENGTH - 1),
     <<"[removed]">> \o Rep("a", MIN_SELFTEXT_LENGTH),
     Rep("a", 10) \o Rep("U", MIN_SELFTEXT_LENGTH - 10)}

\* bodies: of the minimum length, one character short, a bare marker, long with a
\* marker, with a run of non-ASCII characters, with both markers, with both markers
\* around an ampersand, blank, and with newlines
BodySamples ==
    {Rep("a", MIN_BODY_LENGTH), Rep("a", MIN_BODY_LENGTH - 1), <<"[deleted]">>,
     Rep("A", MIN_BODY_LENGTH) \o <<"[removed]">>,
     Rep("a", 3) \o Rep("U", MIN_BODY_LENGTH - 2),
     <<"[deleted]", " ", "[removed]">>, <<"[deleted]", "&", "[removed]">>,
     Rep(" ", MIN_BODY_LENGTH), Rep("a", 8) \o <<"NL", "NL">> \o Rep("a", 8)}

RowSamples(rt) ==
    IF rt = "submission"
    THEN [submission_id : IdSamples, title : TitleSamples, selftext : SelftextSamples]
    ELSE [comment_id : IdSamples, body : BodySamples]

SeqUpTo(S, n) == UNION {[1..k -> S] : k \in 0..n}

\* the tables the loader builds: the schema's metadata and columns, any rows
WellFormedTables ==
    UNION {{[meta |-> rt, cols |-> TextCols(rt) \cup {IdCol(rt)}, rows |-> rows] :
                rows \in SeqUpTo(RowSamples(rt), MaxRows)} : rt \in Types}

\* the tables of the unit tests of the failure path: no schema metadata, an unknown
\* record type, or the text columns dropped
MalformedTables ==
    {[t EXCEPT !.meta = m] : m \in {Null, "other"},
                             t \in {w \in WellFormedTables : Len(w.rows) <= 1}}
    \cup UNION {{[meta |-> rt, cols |-> {IdCol(rt)}, rows |-> rows] :
                    rows \in SeqUpTo({[c \in {IdCol(rt)} |-> id] : id \in IdSamples},
                                     MaxRows)} : rt \in Types}

\* regex_patterns and the minimum lengths a caller passes
PatternLists == {DefaultPatterns, <<"[deleted]">>}
ZeroMin == [title |-> 0, selftext |-> 0, body |-> 0]
MinArgs == {DefaultMin, ZeroMin}
DefaultArgs ==
    [regex_patterns |-> DefaultPatterns, match_logic |-> "union", min |-> DefaultMin]

TransformerIdle ==
    /\ current_record_type = Null
    /\ tfTable = [meta |-> Null, cols |-> {}, rows |-> <<>>]
    /\ tfOp = "none"
    /\ tfArgs = DefaultArgs
    /\ tfOut = tfTable
    /\ tfRaised = "none"

\* a DataTransformer (it has no constructor) and a table about to be passed to it
TransformerInit ==
    /\ current_record_type = Null
    /\ tfTable \in WellFormedTables \cup MalformedTables
    /\ tfOp = "none"
    /\ tfArgs = DefaultArgs
    /\ tfOut = tfTable
    /\ tfRaised = "none"

\* transformer.transform(table), or transformer(table)
Transform ==
    /\ tfOp = "none"
    /\ tfOp' = "transform"
    /\ current_record_type' = IF tfTable.meta = Null THEN current_record_type
                               ELSE tfTable.meta
    /\ tfOut' = transform(tfTable)
    /\ UNCHANGED <<tfTable, tfArgs, tfRaised>>

\* a direct call of one stage: the caller sets current_record_type first, as the
\* unit tests do, and an exception of the stage reaches the caller
CallStage(op, args, result) ==
    /\ tfOp = "none"
    /\ tfTable.meta # Null
    /\ tfOp' = op
    /\ tfArgs' = args
    /\ current_record_type' = tfTable.meta
    /\ IF StageError(tfTable, tfTable.meta) # "none"
       THEN tfRaised' = StageError(tfTable, tfTable.meta) /\ UNCHANGED tfOut
       ELSE tfOut' = result /\ UNCHANGED tfRaised
    /\ UNCHANGED tfTable

RemoveMatch ==
    \E pats \in PatternLists, logic \in {"union", "intersect"} :
        CallStage("remove_match_from_table",
                  [DefaultArgs EXCEPT !.regex_patterns = pats, !.match_logic = logic],
                  remove_match_from_table(tfTable, tfTable.meta, pats, logic))

RemoveShortText ==
    \E min \in MinArgs :
        CallStage("remove_short_text_from_table", [DefaultArgs EXCEPT !.min = min],
                  remove_short_text_from_table(tfTable, tfTable.meta, min))

RemoveDuplicates ==
    CallStage("remove_duplicates_from_df", DefaultArgs,
              remove_duplicates_from_df(tfTable, tfTable.meta))

TransformerNext ==
    \/ Transform /\ UNCHANGED notTransformer
    \/ RemoveMatch /\ UNCHANGED notTransformer
    \/ RemoveShortText /\ UNCHANGED notTransformer
    \/ RemoveDuplicates /\ UNCHANGED notTransformer

(***************************************************************************)
(* get_path (utils/getpath.py)                                             *)
(*                                                                         *)
(* A path is the sequence of its components below the file system root;    *)
(* resolve() is the identity on such paths.                                *)
(***************************************************************************)
DirNames == {"data", "queries"}

\* every path of at most MaxDepth components
Paths == UNION {[1..k -> DirNames] : k \in 0..MaxDepth}

\* current_path.parent: the root is its own parent
Parent(path) == IF path = <<>> THEN <<>> ELSE SubSeq(path, 1, Len(path) - 1)

\* the directory trees: a set of directories with all their ancestors
Ancestors(path) == {SubSeq(path, 1, k) : k \in 0..Len(path)}
Trees == {Ancestors(p) \cup Ancestors(q) : p, q \in Paths}

\* the subdir arguments: none, one component, and 'data/queries' of etl.py
SubdirArgs == {<<>>, <<"data">>, <<"data", "queries">>}

GetPathIdle ==
    /\ current_path = <<>>
    /\ gpSubdir = <<>>
    /\ gpDirs = {<<>>}
    /\ gpHolds = {}
    /\ gpFrames = 0
    /\ gpOutcome = "returned"
    /\ gpVisited = <<>>

\* get_path(start_path, target, subdir) is called: the start path may or may not
\* exist, and the target exists in at most one directory
GetPathInit ==
    /\ gpDirs \in Trees
    /\ \E d \in gpDirs : gpHolds \in {{}, {d}}
    /\ gpSubdir \in SubdirArgs
    /\ current_path \in Paths
    /\ gpFrames = 1
    /\ gpOutcome = "running"
    /\ gpVisited = <<current_path>>

\* lines 25-27: the target is in the current directory
TargetExists == current_path \in gpHolds

\* lines 30-31: subdir_path differs from current_path and exists
SubdirExists == gpSubdir # <<>> /\ (current_path \o gpSubdir) \in gpDirs

\* line 35
AtRoot == current_path = Parent(current_path)

\* line 42
AtSubdir == current_path = Parent(current_path) \o gpSubdir

\* a recursive call `return get_path(path, target, subdir)`: a new frame while the
\* interpreter allows one, RecursionError when it does not
Recurse(path) ==
    IF gpFrames < MaxFrames
    THEN /\ current_path' = path
         /\ gpFrames' = gpFrames + 1
         /\ gpVisited' = Append(gpVisited, path)
         /\ UNCHANGED gpOutcome
    ELSE /\ gpOutcome' = "RecursionError"
         /\ UNCHANGED <<current_path, gpFrames, gpVisited>>

GetPathReturns ==
    /\ gpOutcome = "running"
    /\ TargetExists
    /\ gpOutcome' = "returned"
    /\ UNCHANGED <<current_path, gpSubdir, gpDirs, gpHolds, gpFrames, gpVisited>>

GetPathEntersSubdir ==
    /\ gpOutcome = "running"
    /\ ~TargetExists
    /\ SubdirExists
    /\ Recurse(current_path \o gpSubdir)
    /\ UNCHANGED <<gpSubdir, gpDirs, gpHolds>>

GetPathRaisesAtRoot ==
    /\ gpOutcome = "running"
    /\ ~TargetExists
    /\ ~SubdirExists
    /\ AtRoot
    /\ gpOutcome' = "RuntimeError"
    /\ UNCHANGED <<current_path, gpSubdir, gpDirs, gpHolds, gpFrames, gpVisited>>

GetPathRaisesAtSubdir ==
    /\ gpOutcome = "running"
    /\ ~TargetExists
    /\ ~SubdirExists
    /\ ~AtRoot
    /\ AtSubdir
    /\ gpOutcome' = "RuntimeError"
    /\ UNCHANGED <<current_path, gpSubdir, gpDirs, gpHolds, gpFrames, gpVisited>>

GetPathClimbs ==
    /\ gpOutcome = "running"
    /\ ~TargetExists
    /\ ~SubdirExists
    /\ ~AtRoot
    /\ ~AtSubdir
    /\ Recurse(Parent(current_path))
    /\ UNCHANGED <<gpSubdir, gpDirs, gpHolds>>

GetPathNext ==
    \/ GetPathReturns /\ UNCHANGED notGetPath
    \/ GetPathEntersSubdir /\ UNCHANGED notGetPath
    \/ GetPathRaisesAtRoot /\ UNCHANGED notGetPath
    \/ GetPathRaisesAtSubdir /\ UNCHANGED notGetPath
    \/ GetPathClimbs /\ UNCHANGED notGetPath

(***************************************************************************)
(* main() of the pipeline (pipeline/etl.py) and the schema configuration   *)
(* (config/parquet.py)                                                     *)
(***************************************************************************)
\* what schemas.json holds for a record type: a usable column list, no entry, or a
\* datatype string eval() cannot evaluate
SchemaEntries == {"ok", "absent", "bad_dtype"}

\* config/schemas.json: found by get_path or not, parsable as JSON or not, and its
\* entries per record type
SchemaFiles ==
    {[found |-> FALSE, json |-> FALSE, submission |-> "absent", comment |-> "absent"],
     [found |-> TRUE, json |-> FALSE, submission |-> "absent", comment |-> "absent"]}
    \cup [found : {TRUE}, json : {TRUE}, submission : SchemaEntries, comment : SchemaEntries]

\* _load_schema(path, record_type): "schema" for a schema, else the exception raised
_load_schema(file, record_type) ==
    IF ~file.json THEN "JSONDecodeError"
    ELSE IF file[record_type] = "absent" THEN "KeyError"
    ELSE IF file[record_type] = "bad_dtype" THEN "NameError"
    ELSE "schema"

\* get_parquet_configs(schema_path=get_path(..., target='schemas.json', subdir='config')):
\* "file" when both schemas were read from the file, else the exception raised
ConfigsFromFile(file) ==
    IF ~file.found THEN "RuntimeError"
    ELSE IF _load_schema(file, "submission") # "schema" THEN _load_schema(file, "submission")
    ELSE IF _load_schema(file, "comment") # "schema" THEN _load_schema(file, "comment")
    ELSE "file"

\* a log record: its level and what it is about
LogRecord(level, about) == [level |-> level, about |-> about]

MainIdle ==
    /\ schema_file = [found |-> FALSE, json |-> FALSE, submission |-> "absent",
                      comment |-> "absent"]
    /\ query_files = FALSE
    /\ loader_config = "unset"
    /\ mpc = "done"
    /\ mainRaised = "none"
    /\ mainLog = <<>>
    /\ extracted = 0

MainInit ==
    /\ schema_file \in SchemaFiles
    /\ query_files \in BOOLEAN
    /\ loader_config = "unset"
    /\ mpc = "start"
    /\ mainRaised = "none"
    /\ mainLog = <<>>
    /\ extracted = 0

\* lines 38-41: the schemas are read from the file
ConfigureFromFile ==
    /\ mpc = "start"
    /\ ConfigsFromFile(schema_file) = "file"
    /\ loader_config' = "file"
    /\ mpc' = "configured"
    /\ UNCHANGED <<schema_file, query_files, mainRaised, mainLog, extracted>>

\* lines 38-43: get_path or get_parquet_configs raised, the bare `except:` takes
\* the built-in schemas of get_parquet_configs()
ConfigureFallsBack ==
    /\ mpc = "start"
    /\ ConfigsFromFile(schema_file) # "file"
    /\ loader_config' = "defaults"
    /\ mpc' = "configured"
    /\ UNCHANGED <<schema_file, query_files, mainRaised, mainLog, extracted>>

\* lines 46-57: the Reddit client, the streamer, the transformer and the loader are
\* built; the loader's constructor logs its configuration and its target size
BuildObjects ==
    /\ mpc = "configured"
    /\ mpc' = "built"
    /\ mainLog' = mainLog \o <<LogRecord("INFO", "loader"), LogRecord("INFO", "target")>>
    /\ UNCHANGED <<schema_file, query_files, loader_config, mainRaised, extracted>>

\* lines 60-68: the lists are read and load() starts on the stream
StartLoad ==
    /\ mpc = "built"
    /\ query_files
    /\ mpc' = "loading"
    /\ mainLog' = Append(mainLog, LogRecord("INFO", "load"))
    /\ UNCHANGED <<schema_file, query_files, loader_config, mainRaised, extracted>>

\* lines 60-61: txt_to_list does not find a list, get_path raises RuntimeError
ListsMissing ==
    /\ mpc = "built"
    /\ ~query_files
    /\ mpc' = "failed"
    /\ mainRaised' = "RuntimeError"
    /\ UNCHANGED <<schema_file, query_files, loader_config, mainLog, extracted>>

\* line 68: load() pulls a record from the stream
ExtractRecord ==
    /\ mpc = "loading"
    /\ extracted < MaxStream
    /\ extracted' = extracted + 1
    /\ UNCHANGED <<schema_file, query_files, loader_config, mpc, mainRaised, mainLog>>

\* line 68: the stream ends and load() returns after its last flush
MainReturns ==
    /\ mpc = "loading"
    /\ mpc' = "done"
    /\ mainLog' = Append(mainLog, LogRecord("INFO", "flush"))
    /\ UNCHANGED <<schema_file, query_files, loader_config, mainRaised, extracted>>

MainNext ==
    \/ ConfigureFromFile /\ UNCHANGED notMain
    \/ ConfigureFallsBack /\ UNCHANGED notMain
    \/ BuildObjects /\ UNCHANGED notMain
    \/ StartLoad /\ UNCHANGED notMain
    \/ ListsMissing /\ UNCHANGED notMain
    \/ ExtractRecord /\ UNCHANGED notMain
    \/ MainReturns /\ UNCHANGED notMain

(***************************************************************************)
(* The constructor of ParquetDataLoader and the transformer at write time  *)
(* (pipeline/loader.py)                                                    *)
(***************************************************************************)
\* the config argument: a tuple of two namedtuples, a tuple of three, not a sequence
ConfigArgs == {"pair", "triple", "scalar"}

\* the target_MB argument
TargetArgs == {-1, 0, 1, 128}

\* the transformer argument by its shape: its truth value, whether callable() holds
\* and whether it has a .transform attribute. None is falsy with neither; a
\* DataTransformer is truthy with both
TransformerArgs == [truthy : BOOLEAN, callable : BOOLEAN, has_transform : BOOLEAN]

NoTransformer == [truthy |-> FALSE, callable |-> FALSE, has_transform |-> FALSE]

\* _validate_init_args: the exception it raises, "none" if none
_validate_init_args(config, target_MB, tf) ==
    IF config # "pair" THEN "ValueError"
    ELSE IF target_MB <= 0 THEN "ValueError"
    ELSE IF tf.truthy /\ ~(tf.callable \/ tf.has_transform) THEN "ValueError"
    ELSE "none"

\* lines 217-218 of _write: `if self._transformer: pa_table = self._transformer(pa_table)`
ApplyTransformer(tf) ==
    IF ~tf.truthy THEN "untransformed"
    ELSE IF tf.callable THEN "transformed"
    ELSE "TypeError"

CtorIdle ==
    /\ ctorArgs = [config |-> "pair", target_MB |-> 128, transformer |-> NoTransformer]
    /\ cpc = "built"
    /\ ctorRaised = "none"
    /\ writes = <<>>

CtorInit ==
    /\ ctorArgs \in [config : ConfigArgs, target_MB : TargetArgs, transformer : TransformerArgs]
    /\ cpc = "new"
    /\ ctorRaised = "none"
    /\ writes = <<>>

\* __init__ with arguments the validation accepts
Construct ==
    /\ cpc = "new"
    /\ _validate_init_args(ctorArgs.config, ctorArgs.target_MB, ctorArgs.transformer) = "none"
    /\ cpc' = "built"
    /\ UNCHANGED <<ctorArgs, ctorRaised, writes>>

\* __init__ with arguments the validation rejects
ConstructRejects ==
    /\ cpc = "new"
    /\ _validate_init_args(ctorArgs.config, ctorArgs.target_MB, ctorArgs.transformer) # "none"
    /\ cpc' = "rejected"
    /\ ctorRaised' = _validate_init_args(ctorArgs.config, ctorArgs.target_MB,
                                         ctorArgs.transformer)
    /\ UNCHANGED <<ctorArgs, writes>>

\* _write(record_type, buffer) on the built loader
Write ==
    /\ cpc = "built"
    /\ Len(writes) < MaxStream
    /\ \E rt \in Types :
          writes' = Append(writes, [record_type |-> rt,
                                    outcome |-> ApplyTransformer(ctorArgs.transformer)])
    /\ UNCHANGED <<ctorArgs, cpc, ctorRaised>>

CtorNext ==
    \/ Construct /\ UNCHANGED notCtor
    \/ ConstructRejects /\ UNCHANGED notCtor
    \/ Write /\ UNCHANGED notCtor

(***************************************************************************)
(* Specifications                                                          *)
(***************************************************************************)
LoaderNext ==
    \/ LoadRecord /\ UNCHANGED notLoader
    \/ LoadMalformed /\ UNCHANGED notLoader
    \/ StreamRaises /\ UNCHANGED notLoader
    \/ StreamEnds /\ UNCHANGED notLoader
    \/ ErrorFlush /\ UNCHANGED notLoader
    \/ FinalFlush /\ UNCHANGED notLoader
    \/ RaiseRuntimeError /\ UNCHANGED notLoader
    \/ LoadReturns /\ UNCHANGED notLoader

InitLoader == LoaderInit /\ StreamerIdle /\ LimiterIdle /\ BackoffIdle /\ TransformerIdle /\ RunsIdle
    /\ GetPathIdle /\ MainIdle /\ CtorIdle

SpecLoader == InitLoader /\ [][LoaderNext]_vars

InitStreamer == StreamerInit /\ LoaderIdle /\ LimiterIdle /\ BackoffIdle /\ TransformerIdle /\ RunsIdle
    /\ GetPathIdle /\ MainIdle /\ CtorIdle

SpecStreamer == InitStreamer /\ [][StreamerNext]_vars

InitLimiter == LimiterInit /\ LoaderIdle /\ StreamerIdle /\ BackoffIdle /\ TransformerIdle /\ RunsIdle
    /\ GetPathIdle /\ MainIdle /\ CtorIdle

SpecLimiter == InitLimiter /\ [][LimiterNext]_vars

InitBackoff == BackoffInit /\ LoaderIdle /\ StreamerIdle /\ LimiterIdle /\ TransformerIdle /\ RunsIdle
    /\ GetPathIdle /\ MainIdle /\ CtorIdle

SpecBackoff == InitBackoff /\ [][BackoffNext]_vars

InitTransformer ==
    TransformerInit /\ LoaderIdle /\ StreamerIdle /\ LimiterIdle /\ BackoffIdle /\ RunsIdle
    /\ GetPathIdle /\ MainIdle /\ CtorIdle

SpecTransformer == InitTransformer /\ [][TransformerNext]_vars

\* load() calls one after the other, on one loader and over separate runs, while the
\* clock advances; the file names do not depend on the transformer
LoaderRunsNext ==
    \/ LoaderNext
    \/ ClockTicks /\ UNCHANGED notRuns
    \/ LoadAgain /\ UNCHANGED notRuns
    \/ NewRun /\ UNCHANGED notRuns

InitLoaderRuns ==
    /\ target_bytes \in {1, MaxTarget}
    /\ transformer = "None"
    /\ LoaderStart
    /\ RunsIdle
    /\ StreamerIdle /\ LimiterIdle /\ BackoffIdle /\ TransformerIdle
    /\ GetPathIdle /\ MainIdle /\ CtorIdle

SpecLoaderRuns == InitLoaderRuns /\ [][LoaderRunsNext]_vars

InitGetPath ==
    GetPathInit /\ LoaderIdle /\ StreamerIdle /\ LimiterIdle /\ BackoffIdle /\ TransformerIdle
    /\ RunsIdle /\ MainIdle /\ CtorIdle

SpecGetPath == InitGetPath /\ [][GetPathNext]_vars

InitMain ==
    MainInit /\ LoaderIdle /\ StreamerIdle /\ LimiterIdle /\ BackoffIdle /\ TransformerIdle
    /\ RunsIdle /\ GetPathIdle /\ CtorIdle

SpecMain == InitMain /\ [][MainNext]_vars

InitCtor ==
    CtorInit /\ LoaderIdle /\ StreamerIdle /\ LimiterIdle /\ BackoffIdle /\ TransformerIdle
    /\ RunsIdle /\ GetPathIdle /\ MainIdle

SpecCtor == InitCtor /\ [][CtorNext]_vars

(***************************************************************************)
(* Properties of ParquetDataLoader.load                                    *)
(***************************************************************************)
Range(s) == {s[i] : i \in 1..Len(s)}

\* the ids held by a written file
FileIds(f) == f.table[IdCol(f.rtype)]

\* the indices of the files written for rt with the given prefix
FilesOf(rt, prefix) ==
    {i \in 1..Len(files) : files[i].rtype = rt /\ files[i].prefix = prefix}

FlushTotal == flushes["submission"] + flushes["comment"]

\* C1: once a record type has been flushed (threshold, final or error flush) and
\* until its next record is appended, its byte total is 0 and every column list of
\* self._buffers[type] is empty.
C1_FlushEmptiesBuffer ==
    \A rt \in Types :
        (flushes[rt] > 0 /\ sinceFlush[rt] = <<>>) =>
            /\ buffer_sizes[rt] = 0
            /\ \A col \in DOMAIN buffers[rt] : buffers[rt][col] = <<>>

\* C2: with no transformer, every written file holds exactly the records of its
\* type appended since that type's previous flush, in arrival order, and no record
\* is in two files.
C2_FilesHoldPendingOnly ==
    transformer = "None" =>
        /\ \A i \in 1..Len(files) : FileIds(files[i]) = files[i].pending
        /\ \A i, j \in 1..Len(files) :
               i < j => Range(FileIds(files[i])) \cap Range(FileIds(files[j])) = {}

\* C3: when load() has ended (returned or raised), no write raised and no
\* transformer is configured, every record appended to a buffer is in a written file.
C3_NoBufferedRecordLost ==
    (lpc \in {"returned", "raised"} /\ ~writeFailed /\ transformer = "None") =>
        \A id \in appended : \E i \in 1..Len(files) : id \in Range(FileIds(files[i]))

\* load() ended through the exception path after json.dumps raised on a record that
\* had been appended, with earlier records written by a threshold write
C3_Witness ==
    /\ lpc = "raised" /\ raised = "RuntimeError" /\ exc = "TypeError"
    /\ ~writeFailed /\ transformer = "None"
    /\ Cardinality(appended) >= 3
    /\ \E rt \in Types : FilesOf(rt, "") # {} /\ FilesOf(rt, "error") # {}

\* C4: whenever load() leaves through its except clause, what the caller sees is the
\* RuntimeError, and every non-empty buffer was written to an 'error' file before.
C4_ErrorPathRaisesRuntimeError ==
    (lpc = "raised" /\ exc # "none") =>
        /\ raised = "RuntimeError"
        /\ \A rt \in Types : NonEmpty(buffers[rt]) => FilesOf(rt, "error") # {}

\* C5: after a normal end of the stream there is at most one 'final' file per record
\* type, each final file was written for a type with records pending since its last
\* flush, and no type is left with pending records.
C5_OneFinalWritePerPendingType ==
    lpc \in {"else", "returned"} =>
        \A k \in 1..Len(TypeOrder) :
            LET rt == TypeOrder[k] IN
            /\ Cardinality(FilesOf(rt, "final")) <= 1
            /\ \A i \in FilesOf(rt, "final") : files[i].pending # <<>>
            /\ (k < it) => sinceFlush[rt] = <<>>

\* C6: for target_bytes >= 1, between two records every type's byte total is below
\* target_bytes; and in every state each batch counter is the number of threshold
\* files written for its type (final and error writes leave it alone).
C6_TotalsBelowTarget ==
    /\ (target_bytes >= 1 /\ lpc = "loop") =>
           \A rt \in Types : buffer_sizes[rt] < target_bytes
    /\ \A rt \in Types : batch_counters[rt] = Cardinality(FilesOf(rt, ""))

\* between two records, after a threshold write of some type and with bytes pending
\* below the threshold for some type
C6_Witness ==
    /\ target_bytes >= 2
    /\ lpc = "loop"
    /\ \E rt \in Types : batch_counters[rt] >= 1
    /\ \E rt \in Types : buffer_sizes[rt] > 0

PostIdx == {k \in 1..Len(emitted) : emitted[k].rtype = "submission"}

\* the position of the submission record before position k (0 if there is none)
PrevPost(k) ==
    LET before == {j \in PostIdx : j < k} IN
    IF before = {} THEN 0 ELSE CHOOSE j \in before : \A i \in before : i <= j

IsPrefix(s, t) == Len(s) <= Len(t) /\ \A i \in 1..Len(s) : s[i] = t[i]

EmittedPosts == SelectSeq(emitted, LAMBDA r : r.rtype = "submission")

EmittedComments == SelectSeq(emitted, LAMBDA r : r.rtype = "comment")

\* C8: for every emitted submission, the records between the previous submission
\* record and its own are exactly its replies, all of them, in the order fetched;
\* and the submissions are emitted in the order the provider returned them.
C8_RepliesBeforePost ==
    /\ \A k \in PostIdx :
        LET p == emitted[k].id
            segment == SubSeq(emitted, PrevPost(k) + 1, k - 1)
            replies == returned[p].comments
        IN
        /\ Len(segment) = Len(replies)
        /\ \A j \in 1..Len(segment) :
               /\ segment[j].rtype = "comment"
               /\ segment[j].id = replies[j]
               /\ segment[j].parent_submission_id = p
    /\ \A i \in 1..Len(EmittedPosts) : EmittedPosts[i].id = returned[i].id

\* one pair returned two posts, the first with two replies, the second with at
\* least one, and both posts have been emitted
C8_Witness ==
    \E i \in 1..Len(returned) :
        /\ i + 1 <= Len(returned)
        /\ returned[i].pair = returned[i + 1].pair
        /\ Len(returned[i].comments) = 2
        /\ Len(returned[i + 1].comments) >= 1
        /\ Len(EmittedPosts) >= i + 1

\* the pairs of the cartesian product, channels outer and queries inner
ExpectedPairs ==
    LET F[i \in 0..Len(subreddits)] ==
            IF i = 0 THEN <<>>
            ELSE F[i - 1] \o [j \in 1..Len(queries) |-> <<subreddits[i], queries[j]>>]
    IN F[Len(subreddits)]

\* the records of the first n returned posts: each post's replies, then the post
RecordsUpTo(n) ==
    LET F[i \in 0..n] ==
            IF i = 0 THEN <<>>
            ELSE F[i - 1]
                 \o [j \in 1..Len(returned[i].comments) |->
                        [rtype |-> "comment", id |-> returned[i].comments[j],
                         parent_submission_id |-> returned[i].id]]
                 \o <<[rtype |-> "submission", id |-> returned[i].id,
                       parent_submission_id |-> 0]>>
    IN F[n]

\* C9: stream_search_results is run once per pair of the product, channels outer and
\* queries inner; the yielded sequence is the concatenation of the pairs' records in
\* that order; a 2 x 2 run with 1 post + 1 reply per pair yields 4 posts and 4 replies.
C9_CartesianOrder ==
    /\ IsPrefix(searched, ExpectedPairs)
    /\ IsPrefix(emitted, RecordsUpTo(Len(returned)))
    /\ \A i \in 1..Len(returned) :
           /\ returned[i].pair <= Len(searched)
           /\ i > 1 => returned[i - 1].pair <= returned[i].pair
    /\ spc = "done" =>
           /\ searched = ExpectedPairs
           /\ emitted = RecordsUpTo(Len(returned))
           /\ (/\ Len(subreddits) = 2 /\ Len(queries) = 2
               /\ Len(returned) = 4
               /\ \A i \in 1..4 : returned[i].pair = i /\ Len(returned[i].comments) = 1)
              => (Len(EmittedPosts) = 4 /\ Len(EmittedComments) = 4)

\* 2 channels x 2 queries, 1 post + 1 reply per pair, consumed to exhaustion with
\* the progress bar on
C9_Witness ==
    /\ spc = "done" /\ progress_bar
    /\ Len(subreddits) = 2 /\ Len(queries) = 2
    /\ Len(returned) = 4
    /\ \A i \in 1..4 : returned[i].pair = i /\ Len(returned[i].comments) = 1
    /\ Len(emitted) = 8

(***************************************************************************)
(* Properties of RateLimiter.evaluate                                      *)
(***************************************************************************)
\* C10: an evaluate() call that returns has appended exactly one timestamp (the
\* current time, after the eviction of stale entries) and added one to
\* total_requests, in an evaluation with remaining - 1 >= buffer; total_requests
\* never decreases, and neither it nor the window's newest entry changes in any
\* other step.
C10_ReturnLogsOneRequest ==
    [][/\ total_requests' >= total_requests
       /\ (calls' = calls + 1 /\ evalOutcome' = "returned") =>
              /\ total_requests' = total_requests + 1
              /\ logged' = logged + 1
              /\ requests_in_window' # <<>>
              /\ requests_in_window'[Len(requests_in_window')] = now
              /\ SubSeq(requests_in_window', 1, Len(requests_in_window') - 1)
                     = RefreshWindow(requests_in_window, now)
              /\ lastRemaining' - 1 >= lastBuffer'
              /\ lastRemaining' = IF limits.remaining # NoneVal THEN limits.remaining
                                  ELSE max_requests
                                       - Len(RefreshWindow(requests_in_window, now))
       /\ (total_requests' # total_requests \/ logged' # logged) =>
              (calls' = calls + 1 /\ evalOutcome' = "returned")
       /\ ~(calls' = calls + 1 /\ evalOutcome' = "returned") =>
              Len(requests_in_window') <= Len(requests_in_window)
      ]_vars

\* a second evaluate() has returned on the fallback path after the first logged
\* timestamp had left the window
C10_Witness ==
    /\ evalOutcome = "returned"
    /\ total_requests = 2
    /\ limits.remaining = NoneVal
    /\ Len(requests_in_window) = 1

\* C11: an evaluation that finds remaining - 1 < buffer sleeps (for
\* max(reset - now, 0) plus the jitter) and then ends by returning; it does not end
\* in an error with no sleep made.
C11_DippingEvaluationSleeps ==
    (evalOutcome # "none" /\ DipsIntoBuffer(lastRemaining, lastBuffer))
        => (slept # <<>> /\ evalOutcome = "returned")

(***************************************************************************)
(* Properties of backoff_on_rate_limit                                     *)
(***************************************************************************)
\* C12: a call wrapped with max_retries = N invokes the function at most N + 1
\* times, the first call and N retries.
C12_AtMostBudgetPlusOneInvocations == invocations <= max_retries + 1

\* C13: a transient provider error (ResponseException) raised while the replies of a
\* post are fetched, by the body of the generator function _fetch_comments, is caught
\* by the wrapper: the caller never sees the ResponseException itself.
C13_TransientReplyErrorIsCaught ==
    wrapped = "generator" => callerSaw # "ResponseException"

(***************************************************************************)
(* Properties of DataTransformer                                           *)
(***************************************************************************)
\* the call op has returned a table for a table of a known record type with its text
\* columns
Returned(op) ==
    /\ tfOp = op
    /\ tfRaised = "none"
    /\ tfTable.meta \in Types
    /\ TextCols(tfTable.meta) \subseteq tfTable.cols

\* the values of the scanned text fields of a row
Fields(row, rt) == {row[c] : c \in TextCols(rt)}

\* the rows of the input table at the indices in K, in input order
InputRows(K) == SubSeqBy(tfTable.rows, K \cap (1..Len(tfTable.rows)))

\* C14: transform() never raises; when the schema has no metadata, the record type
\* is unknown or the text columns are missing, it returns the input table itself.
C14_FailedTransformReturnsInput ==
    tfOp = "transform" =>
        /\ tfRaised = "none"
        /\ (tfTable.meta \notin Types \/ ~(TextCols(tfTable.meta) \subseteq tfTable.cols))
              => tfOut = tfTable

C14_Witness ==
    /\ tfOp = "transform"
    /\ tfTable.meta = "submission"
    /\ tfTable.cols = {"submission_id"}
    /\ Len(tfTable.rows) = MaxRows
    /\ tfOut = tfTable

\* C15: every record transform() puts out has normalized text fields of at least the
\* minimum lengths (title 15, selftext 50, body 15).
C15_OutputMeetsMinimumsNormalized ==
    Returned("transform") =>
        \A i \in 1..Len(tfOut.rows) :
            \A c \in TextCols(tfTable.meta) :
                utf8_length(Normalize(tfOut.rows[i][c])) >= DefaultMin[c]

\* C16: deduplication keeps, for each id, exactly the first record with that id, in
\* input order, and applying it to its own output changes nothing.
C16_DedupKeepsFirstPerId ==
    Returned("remove_duplicates_from_df") =>
        LET col == IdCol(tfTable.meta)
            rows == tfTable.rows
        IN
        /\ tfOut.rows = InputRows({i \in 1..Len(rows) :
                                      \A j \in 1..(i - 1) : rows[j][col] # rows[i][col]})
        /\ remove_duplicates_from_df(tfOut, tfTable.meta) = tfOut

C16_Witness ==
    /\ Returned("remove_duplicates_from_df")
    /\ Len(tfTable.rows) = MaxRows
    /\ \E i, j \in 1..Len(tfTable.rows) :
          /\ i < j
          /\ tfTable.rows[i][IdCol(tfTable.meta)] = tfTable.rows[j][IdCol(tfTable.meta)]
          /\ tfTable.rows[i] # tfTable.rows[j]
    /\ Len(tfOut.rows) < Len(tfTable.rows)

HasMarker(text) == \E k \in 1..Len(text) : text[k] \in Markers

C18_IntersectNeedsEveryPattern ==
    Returned("remove_match_from_table") =>
        LET pats == {tfArgs.regex_patterns[k] : k \in 1..Len(tfArgs.regex_patterns)}
            Has(text, p) == \E k \in 1..Len(text) : text[k] = p
            Removed(row) ==
                \E text \in Fields(row, tfTable.meta) :
                    IF tfArgs.match_logic = "intersect"
                    THEN \A p \in pats : Has(text, p)
                    ELSE \E p \in pats : Has(text, p)
        IN tfOut.rows = InputRows({i \in 1..Len(tfTable.rows) : ~Removed(tfTable.rows[i])})

PathOf(f) == <<f.rtype, f.dir, f.prefix, f.batch, f.stamp>>

\* C20: no two writes target the same path, over threshold, final and error writes,
\* both record types, successive load() calls and separate runs, also within one
\* second.
C20_NoTwoWritesShareAPath ==
    \A i, j \in 1..Len(files) : i # j => PathOf(files[i]) # PathOf(files[j])

(***************************************************************************)
(* Properties of RateLimiter, continued                                    *)
(***************************************************************************)
NonDecreasing(window) == \A i \in 1..(Len(window) - 1) : window[i] <= window[i + 1]

\* C23: the window is always in non-decreasing time order, and when evaluate() logs
\* a request the window is the earlier entries that are at most PERIOD old (an entry
\* exactly PERIOD old included) followed by the new timestamp.
C23_WindowWithinPeriod ==
    /\ [](NonDecreasing(requests_in_window))
    /\ [][returns' = returns + 1 =>
            LET Recent(ts) == ts >= now - PERIOD IN
            /\ requests_in_window' = Append(SelectSeq(requests_in_window, Recent), now)
            /\ \A i \in 1..Len(requests_in_window') : Recent(requests_in_window'[i])]_vars

C23_Witness ==
    /\ evalOutcome = "returned"
    /\ Len(requests_in_window) = 2
    /\ Len(requests_in_window) < logged
    /\ requests_in_window[1] = now - PERIOD
    /\ requests_in_window[2] = now

\* C22: every evaluate() call ends by returning.
C22_EveryEvaluationReturns == evalOutcome \in {"none", "returned"}

\* C27: evaluate() never fails on requests_in_window[0]: when remaining - 1 < buffer
\* and the provider reports no reset timestamp, the window is not empty.
C27_OldestTimestampExists ==
    /\ evalOutcome # "IndexError"
    /\ (evalOutcome # "none" /\ DipsIntoBuffer(lastRemaining, lastBuffer)
            /\ limits.reset_timestamp = NoneVal) => requests_in_window # <<>>

C29_ReplyNamesNextPost ==
    \A k \in 1..Len(emitted) :
        emitted[k].rtype = "comment" =>
            LET later == {j \in PostIdx : j > k} IN
            /\ later # {} =>
                  LET next == CHOOSE j \in later : \A i \in later : j <= i
                  IN emitted[next].id = emitted[k].parent_submission_id
            /\ spc = "done" => later # {}

C29_Witness ==
    /\ spc = "done"
    /\ Len(EmittedPosts) = 2
    /\ Len(EmittedComments) = 3
    /\ emitted[1].rtype = "comment"
    /\ emitted[Len(emitted)].id # emitted[1].parent_submission_id

(***************************************************************************)
(* Properties of DataTransformer, continued                                *)
(***************************************************************************)
\* C26: the primary ids of the rows of the table a successful transform() returns
\* are pairwise distinct, ids that differ only in letter case included.
C26_OutputIdsDistinct ==
    Returned("transform") =>
        \A i, j \in 1..Len(tfOut.rows) :
            tfOut.rows[i][IdCol(tfTable.meta)] = tfOut.rows[j][IdCol(tfTable.meta)] => i = j

(***************************************************************************)
(* Properties of get_path                                                  *)
(***************************************************************************)
\* C30: get_path ends by returning an existing path of the target or by raising
\* RuntimeError for a target it did not find, for every start path, target and
\* subdir ('data/queries' included), and its search does not come back to a
\* directory it has been in: the recursion does not run into the frame limit.
C30_SearchIsWellFounded ==
    /\ gpOutcome # "RecursionError"
    /\ \A i, j \in 1..Len(gpVisited) : gpVisited[i] = gpVisited[j] => i = j
    /\ gpOutcome = "returned" /\ gpFrames > 0 => current_path \in gpHolds

(***************************************************************************)
(* Properties of main() and of the loader's constructor                    *)
(***************************************************************************)
\* C21: when schemas.json is missing or cannot be loaded, main() fails with an
\* error before any record is extracted; it does not go on with the built-in
\* schemas unless a log record says that the schema file was not loaded.
C21_UnusableSchemaStopsStartup ==
    ConfigsFromFile(schema_file) # "file" =>
        /\ extracted = 0
        /\ mpc \notin {"start", "configured"} => mainRaised # "none"
        /\ loader_config = "defaults" => \E i \in 1..Len(mainLog) : mainLog[i].about = "schema"

\* C28: a transformer the constructor accepted is applied at every _write without a
\* failure caused by its shape, and a truthy transformer that cannot be called is
\* rejected with ValueError by the constructor.
C28_AcceptedTransformerApplies ==
    /\ \A i \in 1..Len(writes) : writes[i].outcome # "TypeError"
    /\ (cpc # "new" /\ ctorArgs.config = "pair" /\ ctorArgs.target_MB > 0
          /\ ApplyTransformer(ctorArgs.transformer) = "TypeError")
            => ctorRaised = "ValueError"

====
